---- MODULE Spec2Model ----
(***************************************************************************)
(* Shotcraft case-based inventory (src/app.py): the reconciliation done by *)
(* load_components_and_onhand and compute_results.                         *)
(*                                                                         *)
(* Tables (pandas DataFrames) are sequences of records, one per row.  A    *)
(* Component is the tuple of the code points of its string, so that the    *)
(* ordering of sort_values and the equality of merge are computed as       *)
(* Python computes them on str.  A numeric cell is a record [kind, val]:   *)
(* kind "num" holds a float, kind "text" a string that does not parse as a *)
(* number, kind "nan" a missing cell (NaN/None).                           *)
(*                                                                         *)
(* Floats are binary floating point with round-to-nearest-even.  Python's  *)
(* float is IEEE-754 binary64 (53 significant bits); the model keeps the   *)
(* rounding and works with Precision significant bits.  A float is held as *)
(* the integer number of units of 2^-FracBits it is worth.                 *)
(*                                                                         *)
(* The Streamlit widgets (uploader, On_Hand editor, metrics, download) are *)
(* not modelled: the operations are the two functions that hold the        *)
(* reconciliation, applied to every formula sheet, INVENTORY sheet and     *)
(* order size within the bounds.                                           *)
(***************************************************************************)
EXTENDS Integers, Sequences, FiniteSets

VARIABLES pc, formula_sheet, inventory_sheet, cases_sold,
          components, onhand_df,
          display, max_sellable, shortages, raised

vars == <<pc, formula_sheet, inventory_sheet, cases_sold,
          components, onhand_df,
          display, max_sellable, shortages, raised>>

\* ------------------------------------------------------------- bounds
\* total number of rows of the two uploaded sheets
MaxRows == 3
\* largest order size entered
MaxCases == 3
\* significant bits of a float
Precision == 3
\* a float is a multiple of 2^-FracBits
FracBits == 2

\* ------------------------------------------------------------- floats
One == 2 ^ FracBits

RECURSIVE RoundPos(_, _, _)
\* num/den >= 0 rounded to Precision significant bits, ties to even
RoundPos(num, den, s) ==
    LET scale == den * (2 ^ s)
        q     == num \div scale
        rem   == num - q * scale
    IN  IF q >= 2 ^ Precision
        THEN RoundPos(num, den, s + 1)
        ELSE (IF 2 * rem > scale \/ (2 * rem = scale /\ q % 2 = 1)
              THEN q + 1 ELSE q) * (2 ^ s)

FloatRound(num, den) ==
    IF num >= 0 THEN RoundPos(num, den, 0) ELSE 0 - RoundPos(0 - num, den, 0)

\* a * b, a - b and a / b on floats
FloatMul(a, b) == FloatRound(a * b, One)
FloatSub(a, b) == FloatRound(a - b, 1)
FloatDiv(a, b) == FloatRound(a * One, b)

\* float(cases_sold)
ToFloat(n) == n * One

\* ------------------------------------------------------------- strings
\* the Component strings of the uploaded sheets, as code points
Zinc == <<90, 105, 110, 99>>
zinc_padded == <<32, 122, 105, 110, 99, 32>>
apple == <<97, 112, 112, 108, 101>>
\* the names the formula sheet uses, and the names the INVENTORY sheet uses
FormulaNames == {Zinc, apple}
StockNames == {Zinc, zinc_padded}

\* a < b on str: the first differing code point decides, a proper prefix is less
StrLess(a, b) ==
    \E k \in 1..Len(b) :
        /\ k <= Len(a) + 1
        /\ \A j \in 1..(k - 1) : a[j] = b[j]
        /\ (k = Len(a) + 1 \/ a[k] < b[k])

\* ------------------------------------------------------------- cells
NumCell(v) == [kind |-> "num", val |-> v]
TextCell == [kind |-> "text", val |-> 0]
NaNCell == [kind |-> "nan", val |-> 0]

\* the cells a Per_Case column holds: "n/a", 0.75, 1.0
Per_CaseCells == {TextCell, NumCell((3 * One) \div 4), NumCell(One)}
\* the cells an On_Hand column holds: empty, -1.0, 2.0
On_HandCells == {NaNCell, NumCell(0 - One), NumCell(2 * One)}

FormulaRows == [Component : FormulaNames, Per_Case : Per_CaseCells, UOM : {"ea"}]
StockRows == [Component : StockNames, On_Hand : On_HandCells]

\* pd.to_numeric(column, errors="coerce"), cell by cell
to_numeric(c) == IF c.kind = "num" THEN c ELSE NaNCell
\* column.fillna(d), cell by cell
fillna(c, d) == IF c.kind = "nan" THEN NumCell(d) ELSE c

\* ------------------------------------------------------------- load
NoTable == [none |-> TRUE, rows |-> <<>>]
Table(rows) == [none |-> FALSE, rows |-> rows]

\* components: the Component, Per_Case and UOM columns of the formula sheet
LoadComponents(sheet) == sheet

\* onhand_df: Component and On_Hand of the INVENTORY sheet, None when the
\* sheet or one of the two columns is missing
LoadOnHand(inv) == IF inv.sheet = "ok" THEN Table(inv.rows) ELSE NoTable

\* ------------------------------------------------------------- merge
RECURSIVE Flatten(_)
Flatten(ss) == IF ss = <<>> THEN <<>> ELSE Head(ss) \o Flatten(Tail(ss))

WithOnHand(row, cell) ==
    [Component |-> row.Component, UOM |-> row.UOM,
     Per_Case |-> row.Per_Case, On_Hand |-> cell]

\* the rows of right whose key equals the key of row
Matches(row, right) == SelectSeq(right, LAMBDA s : s.Component = row.Component)

\* the merge with how="inner": a left row without a match is dropped
InnerMerge(left, right) ==
    Flatten([i \in 1..Len(left) |->
        LET m == Matches(left[i], right)
        IN  [k \in 1..Len(m) |-> WithOnHand(left[i], m[k].On_Hand)]])

\* left.merge(right, on="Component", how="left"): every left row once per
\* matching right row, or once with a missing On_Hand when none matches
LeftMerge(left, right) ==
    Flatten([i \in 1..Len(left) |->
        LET m == Matches(left[i], right)
        IN  IF m = <<>>
            THEN <<WithOnHand(left[i], NaNCell)>>
            ELSE [k \in 1..Len(m) |-> WithOnHand(left[i], m[k].On_Hand)]])

\* df after the merge and the On_Hand default
Merged(comps, oh) ==
    IF ~oh.none
    THEN LeftMerge(comps, oh.rows)
    ELSE [i \in 1..Len(comps) |-> WithOnHand(comps[i], NumCell(0))]

\* ------------------------------------------------------------- metrics
\* the coercion with negative numbers clipped to 0.0
CoerceNonNegative(c) ==
    LET v == fillna(to_numeric(c), 0).val IN IF v < 0 THEN 0 ELSE v

Coerce(c) == fillna(to_numeric(c), 0).val

Coerced(df) ==
    [i \in 1..Len(df) |->
        [df[i] EXCEPT !.Per_Case = Coerce(df[i].Per_Case),
                      !.On_Hand = Coerce(df[i].On_Hand)]]

\* the subtraction with its operands exchanged
RemainingSwapped(on_hand, required) == FloatSub(required, on_hand)

Required(per_case, cases) == FloatMul(per_case, ToFloat(cases))
Remaining(on_hand, required) == FloatSub(on_hand, required)

WithMetrics(df, cases) ==
    [i \in 1..Len(df) |->
        LET req == Required(df[i].Per_Case, cases)
        IN  [Component |-> df[i].Component, UOM |-> df[i].UOM,
             On_Hand |-> df[i].On_Hand, Per_Case |-> df[i].Per_Case,
             Required |-> req, Remaining |-> Remaining(df[i].On_Hand, req)]]

\* df as it stands at the end of the row metrics
Frame(comps, oh, cases) == WithMetrics(Coerced(Merged(comps, oh)), cases)

\* ------------------------------------------------------------- feasibility
Finite(v) == [inf |-> FALSE, v |-> v]
Infinity == [inf |-> TRUE, v |-> 0]

IsCandidate(r) == r.Per_Case > 0
Candidates(df) == SelectSeq(df, IsCandidate)

\* the ratio taken on the magnitude of On_Hand
MaxCasesByItemAbs(r) ==
    IF r.Per_Case > 0
    THEN Finite(FloatDiv(IF r.On_Hand < 0 THEN 0 - r.On_Hand ELSE r.On_Hand, r.Per_Case))
    ELSE Infinity

MaxCasesByItem(r) ==
    IF r.Per_Case > 0 THEN Finite(FloatDiv(r.On_Hand, r.Per_Case)) ELSE Infinity

ExtLeq(a, b) == b.inf \/ (~a.inf /\ a.v <= b.v)

\* column.min()
ColumnMin(col) ==
    CHOOSE m \in {col[i] : i \in 1..Len(col)} :
        \A i \in 1..Len(col) : ExtLeq(m, col[i])

\* int(): truncation toward zero in place of the floor
math_trunc(x) ==
    IF x.inf THEN [ok |-> FALSE, val |-> 0]
    ELSE [ok |-> TRUE,
          val |-> IF x.v >= 0 THEN x.v \div One ELSE 0 - ((0 - x.v) \div One)]

\* math.floor: OverflowError on an infinity
math_floor(x) ==
    IF x.inf THEN [ok |-> FALSE, val |-> 0] ELSE [ok |-> TRUE, val |-> x.v \div One]

MaxSellable(df) ==
    IF Candidates(df) # <<>>
    THEN math_floor(ColumnMin([i \in 1..Len(df) |-> MaxCasesByItem(df[i])]))
    ELSE [ok |-> TRUE, val |-> 0]

\* ------------------------------------------------------------- outputs
\* the shortage test with the boundary included
IsShortOrZero(r) == r.Remaining <= 0

IsShort(r) == r.Remaining < 0
Shortages(df) == SelectSeq(df, IsShort)

Without(df, i) == SubSeq(df, 1, i - 1) \o SubSeq(df, i + 1, Len(df))

\* the rows no other row sorts before
Least(df) ==
    {i \in 1..Len(df) :
        \A j \in 1..Len(df) : ~StrLess(df[j].Component, df[i].Component)}

RECURSIVE SortValues(_)
\* df.sort_values("Component"): the rows in ascending order of Component; the
\* default sort is not stable, rows of equal Component come out in any order
SortValues(df) ==
    IF df = <<>>
    THEN {<<>>}
    ELSE UNION {{<<df[i]>> \o rest : rest \in SortValues(Without(df, i))} :
                i \in Least(df)}

\* ------------------------------------------------------------- program
InventorySheets(n) ==
    {[sheet |-> "ok", rows |-> r] : r \in [1..n -> StockRows]}
    \cup (IF n = 0
          THEN {[sheet |-> "absent", rows |-> <<>>], [sheet |-> "nocols", rows |-> <<>>]}
          ELSE {})

Init ==
    /\ pc = "uploaded"
    /\ \E f \in 0..MaxRows : \E s \in 0..(MaxRows - f) :
          /\ formula_sheet \in [1..f -> FormulaRows]
          /\ inventory_sheet \in InventorySheets(s)
    /\ cases_sold \in 0..MaxCases
    /\ components = <<>>
    /\ onhand_df = NoTable
    /\ display = <<>>
    /\ max_sellable = 0
    /\ shortages = <<>>
    /\ raised = FALSE

\* load_components_and_onhand(sheets)
Load ==
    /\ pc = "uploaded"
    /\ components' = LoadComponents(formula_sheet)
    /\ onhand_df' = LoadOnHand(inventory_sheet)
    /\ pc' = "loaded"
    /\ UNCHANGED <<formula_sheet, inventory_sheet, cases_sold,
                   display, max_sellable, shortages, raised>>

\* compute_results(components, onhand_df, cases_sold)
Compute ==
    /\ pc = "loaded"
    /\ LET df == Frame(components, onhand_df, cases_sold)
           ms == MaxSellable(df)
       IN  IF ms.ok
           THEN /\ display' \in SortValues(df)
                /\ max_sellable' = ms.val
                /\ shortages' = Shortages(df)
                /\ raised' = FALSE
           ELSE /\ raised' = TRUE
                /\ UNCHANGED <<display, max_sellable, shortages>>
    /\ pc' = "done"
    /\ UNCHANGED <<formula_sheet, inventory_sheet, cases_sold, components, onhand_df>>

Next == Load \/ Compute

Spec == Init /\ [][Next]_vars

\* ------------------------------------------------------------- properties
Done == pc = "done" /\ ~raised
Rows(t) == {t[i] : i \in 1..Len(t)}
Count(t, r) == Cardinality({i \in 1..Len(t) : t[i] = r})

\* the number a cell stands for: itself, or 0.0 when it is text or missing
NumberOf(c) == IF c.kind = "num" THEN c.val ELSE 0

\* str.lower() and str.strip() on code points
Lower(s) == [i \in 1..Len(s) |-> IF s[i] \in 65..90 THEN s[i] + 32 ELSE s[i]]
IsSpace(ch) == ch = 32 \/ ch \in 9..13
RECURSIVE Strip(_)
Strip(s) ==
    IF s = <<>> THEN s
    ELSE IF IsSpace(Head(s)) THEN Strip(Tail(s))
    ELSE IF IsSpace(s[Len(s)]) THEN Strip(SubSeq(s, 1, Len(s) - 1))
    ELSE s
Normalize(s) == Strip(Lower(s))

\* C1: the reconciled table has exactly one row per formula entry, whatever
\* the stock table holds (duplicates, unknown materials, no table at all).
C1_MergeCompleteness ==
    Done => Len(display) = Len(components)

\* n is the mathematical floor of the float x
IsFloorOf(n, x) == n * One <= x /\ x < (n + 1) * One

\* C2: max_sellable is the floor (toward negative infinity) of the least
\* On_Hand / Per_Case over exactly the rows with Per_Case > 0, and 0 when no
\* row has Per_Case > 0; rows with Per_Case = 0 do not constrain it.
C2_Feasibility ==
    Done =>
        LET pos == {i \in 1..Len(display) : display[i].Per_Case > 0}
            ratio(i) == FloatDiv(display[i].On_Hand, display[i].Per_Case)
        IN  IF pos = {}
            THEN max_sellable = 0
            ELSE \E i \in pos :
                    /\ \A j \in pos : ratio(i) <= ratio(j)
                    /\ IsFloorOf(max_sellable, ratio(i))

\* a negative, fractional least ratio beside a row with Per_Case = 0 and
\* On_Hand = 0
C2_Witness ==
    /\ Done
    /\ max_sellable = -2
    /\ \E i \in 1..Len(display) : display[i].Per_Case = 0 /\ display[i].On_Hand = 0
    /\ \E i \in 1..Len(display) :
          display[i].Per_Case > 0 /\ display[i].On_Hand = 0 - One

\* C3: the shortage table holds exactly the reconciled rows with
\* Remaining < 0, with the field values they have in the reconciled table;
\* a row with Remaining = 0 is not in it.
C3_ShortageExactness ==
    Done =>
        \A r \in Rows(display) \cup Rows(shortages) :
            Count(shortages, r) = IF r.Remaining < 0 THEN Count(display, r) ELSE 0

C3_Witness ==
    /\ Done
    /\ \E i \in 1..Len(display) : display[i].Remaining = 0 /\ display[i].Required > 0
    /\ \E i \in 1..Len(display) : display[i].Remaining < 0
    /\ shortages # <<>>

Unmatched(f) ==
    onhand_df.none \/ \A s \in Rows(onhand_df.rows) : s.Component # f.Component

\* C5: a formula material without a matching stock entry, or any formula
\* material when there is no stock table, has a reconciled row with
\* On_Hand = 0.0, Required = Per_Case * cases and Remaining = -Required.
C5_ZeroStockDefault ==
    Done =>
        \A f \in Rows(components) :
            Unmatched(f) =>
                /\ \E r \in Rows(display) : r.Component = f.Component
                /\ \A r \in Rows(display) :
                      r.Component = f.Component =>
                          /\ r.On_Hand = 0
                          /\ \E g \in Rows(components) :
                                /\ g.Component = f.Component
                                /\ r.Required = FloatMul(NumberOf(g.Per_Case), ToFloat(cases_sold))
                          /\ r.Remaining = 0 - r.Required

\* a stock table that lists other materials only, and an order that needs
\* the unmatched material
C5_Witness ==
    /\ Done
    /\ ~onhand_df.none /\ onhand_df.rows # <<>>
    /\ \E f \in Rows(components) :
          Unmatched(f) /\ \E r \in Rows(display) :
              r.Component = f.Component /\ r.Required > 0

\* C6: a formula entry and a stock entry whose identities are equal after
\* lowercasing and trimming are matched: the formula row shows that stock
\* entry's On_Hand.
C6_NormalizedJoin ==
    Done =>
        \A f \in Rows(components) : \A s \in Rows(onhand_df.rows) :
            Normalize(f.Component) = Normalize(s.Component) =>
                \E r \in Rows(display) :
                    r.Component = f.Component /\ r.On_Hand = NumberOf(s.On_Hand)

\* C7: a stock table that differs from the one used only in one larger
\* On_Hand gives a max_sellable that is not smaller.
C7_Monotone ==
    Done /\ ~onhand_df.none =>
        \A i \in 1..Len(onhand_df.rows) : \A c \in On_HandCells :
            NumberOf(c) > NumberOf(onhand_df.rows[i].On_Hand) =>
                LET more == Table([onhand_df.rows EXCEPT ![i].On_Hand = c])
                    ms   == MaxSellable(Frame(components, more, cases_sold))
                IN  ms.ok /\ ms.val >= max_sellable

\* the stock of the constraining material can be raised
C7_Witness ==
    /\ Done
    /\ max_sellable < 0
    /\ \E i \in 1..Len(onhand_df.rows) :
          /\ onhand_df.rows[i].On_Hand = NumCell(0 - One)
          /\ MaxSellable(Frame(components,
                 Table([onhand_df.rows EXCEPT ![i].On_Hand = NumCell(2 * One)]),
                 cases_sold)).val > max_sellable

\* C8: in every row of the reconciled table and of the shortage table,
\* Required = Per_Case * cases and Remaining = On_Hand - Required, on the
\* Per_Case and On_Hand of that row.
C8_RowMetrics ==
    Done =>
        \A r \in Rows(display) \cup Rows(shortages) :
            /\ r.Required = FloatMul(r.Per_Case, ToFloat(cases_sold))
            /\ r.Remaining = FloatSub(r.On_Hand, r.Required)

C8_Witness ==
    /\ Done
    /\ cases_sold > 1
    /\ \E r \in Rows(shortages) : r.Required > 0 /\ r.On_Hand > 0
    /\ \E r \in Rows(display) : r.Remaining >= 0

\* C9: the reconciled table is in ascending order of Component compared
\* without regard to case.
C9_CaseInsensitiveOrder ==
    Done =>
        \A i, j \in 1..Len(display) :
            i < j => ~StrLess(Lower(display[j].Component), Lower(display[i].Component))

\* C10: with every On_Hand >= 0, every Per_Case >= 0 and some Per_Case > 0,
\* the shortage table is empty exactly when cases <= max_sellable.
C10_OutputsAgree ==
    (/\ Done
     /\ \A r \in Rows(display) : r.On_Hand >= 0 /\ r.Per_Case >= 0
     /\ \E r \in Rows(display) : r.Per_Case > 0)
    => (shortages = <<>> <=> cases_sold <= max_sellable)

====
